---- MODULE Spec2Model ----
(***************************************************************************)
(* Presence and message synchronisation of Mern-Chat.                      *)
(*                                                                         *)
(*   server/server.js                  the socket.io gateway and the       *)
(*                                     process-wide userSocketMap          *)
(*   client/src/context/ChatContext.jsx the client's reconciliation of     *)
(*                                     optimistic sends, fetches and       *)
(*                                     pushes                              *)
(*                                                                         *)
(* SpecServer is the gateway, SpecClient is one client session against the *)
(* message store.                                                          *)
(***************************************************************************)
EXTENDS Integers, Sequences, FiniteSets, TLC

(***************************************************************************)
(* Bounds                                                                  *)
(***************************************************************************)
\* sockets that connect during one life of the server process
NumSockets == 3

\* the last value the clock reaches
MaxClock == 1

\* requests and counterpart actions of one session: sendMessage calls,
\* getMessages calls that go to the server, deleteMessage calls, messages the
\* counterparts send and messages they delete
MaxOps == 3

(***************************************************************************)
(* Server: values                                                          *)
(***************************************************************************)
SocketIds == 1..NumSockets

Identities == {"u1", "u2"}

\* decoded.userId of a payload that carries no userId (undefined)
NoUserId == "undefined"

\* no socket: the value of a lookup that finds nothing
NoSocket == 0

\* socket.handshake.auth.token: absent, or a token whose signature is good,
\* bad or expired, and the userId its payload claims
Tokens ==
    {[state |-> "missing", userId |-> NoUserId]}
        \cup [state : {"badsig", "expired"}, userId : {"u1"}]
        \cup [state : {"good"}, userId : Identities \cup {NoUserId}]

\* jwt.verify(token, secret) throws on a missing, forged or expired token
VerifyThrows(token) == token.state # "good"

\* jwt.verify(token, secret).userId of a token that verifies
DecodedUserId(token) == token.userId

\* if (userId): undefined is falsy, every identity is a non-empty string
Truthy(userId) == userId # NoUserId

VARIABLES
    userSocketMap,  \* server.js:26  identity -> socket.id, a partial map
    sockets,        \* per socket: transport status, handshake token, the handler's
                    \*   closure variable userId, whether its disconnect listener is on
    procUp,         \* the node process is running
    lastEmit,       \* the last io.emit("getOnlineUsers", ...): payload and recipients
    emitted,        \* how many io.emit calls the process has made
    lastReg         \* history: per identity the socket of its latest registration

serverVars == <<userSocketMap, sockets, procUp, lastEmit, emitted, lastReg>>

NoEmit == [payload |-> {}, to |-> {}]

FreshSocket ==
    [status |-> "none", token |-> [state |-> "missing", userId |-> NoUserId],
     userId |-> NoUserId, listening |-> FALSE]

OpenSockets(socks) == {s \in SocketIds : socks[s].status = "open"}

\* obj[key] = value on a plain object
Put(map, key, value) == [k \in DOMAIN map \cup {key} |-> IF k = key THEN value ELSE map[k]]

\* delete obj[key]; deleting an absent key changes nothing
DeleteKey(map, key) == [k \in DOMAIN map \ {key} |-> map[k]]

\* a broadcast built from the map as it was before the handler changed it
EmitOnlineUsersStale(map, socks) == [payload |-> DOMAIN userSocketMap, to |-> OpenSockets(socks)]

\* io.emit("getOnlineUsers", Object.keys(userSocketMap)): to every socket of the namespace
EmitOnlineUsers(map, socks) == [payload |-> DOMAIN map, to |-> OpenSockets(socks)]

ServerInit ==
    /\ userSocketMap = <<>>
    /\ sockets = [s \in SocketIds |-> FreshSocket]
    /\ procUp = TRUE
    /\ lastEmit = NoEmit
    /\ emitted = 0
    /\ lastReg = [id \in Identities |-> NoSocket]

(***************************************************************************)
(* Client: values                                                          *)
(***************************************************************************)
\* authUser._id
Me == "me"

\* the users the directory lists: the counterparts a conversation can be with
Counterparts == {"A", "B"}

\* selectedUser === null
Null == "null"

\* a user record without lastMessageAt
NoTime == -1

\* what the user types: messageData of sendMessage
MessageData == {[text |-> "hi", image |-> "pic"]}

\* Date.now().toString(): the clock value as a string of digits
TempId(t) == [kind |-> "temp", n |-> t]

\* the _id the store assigns to its n-th document
ObjectId(n) == [kind |-> "oid", n |-> n]

NoData == [_id |-> ObjectId(0), sender |-> Null, receiver |-> Null, text |-> "",
           image |-> "", createdAt |-> NoTime, seen |-> FALSE, deleted |-> FALSE]

VARIABLES
    messages,        \* ChatContext.jsx:17  the live view
    users,           \* ChatContext.jsx:18  _id -> lastMessageAt of the listed users
    selectedUser,    \* ChatContext.jsx:19  and selectedUserRef.current (lines 24-28)
    unseenMessages,  \* ChatContext.jsx:20  _id -> count, a partial map
    messageCache,    \* ChatContext.jsx:21  _id -> messages, a partial map
    now,             \* the value Date.now() and new Date() read
    sendCalls,       \* the sendMessage calls: closure (tempId, selectedUser._id) and request
    fetchCalls,      \* the getMessages calls that went to the server
    deleteCalls,     \* the deleteMessage calls: the id and the request
    markSeen,        \* the ids of the axios.put mark requests issued
    store,           \* the messages the server has persisted, in insertion order
    pushes,          \* the events emitted to this client's socket, not yet handled
    tombstonesShown  \* the ids the live view has shown as deleted so far

clientVars == <<messages, users, selectedUser, unseenMessages, messageCache, now,
                sendCalls, fetchCalls, deleteCalls, markSeen, store, pushes,
                tombstonesShown>>

vars == <<serverVars, clientVars>>

\* the messages counterparts sent that they have deleted since
PeerDeleted == SelectSeq(store, LAMBDA m : m.receiver = Me /\ m.deleted)

\* the requests made and counterpart actions taken so far
Ops ==
    Len(sendCalls) + Len(fetchCalls) + Len(deleteCalls)
        + Len(SelectSeq(store, LAMBDA m : m.receiver = Me)) + Len(PeerDeleted)

\* prev[key] || []
CacheOr(prev, key) == IF key \in DOMAIN prev THEN prev[key] ELSE <<>>

\* prev[key] || 0
CountOr(prev, key) == IF key \in DOMAIN prev THEN prev[key] ELSE 0

\* m put into a list sorted newest-first, behind the entries that are not older
RECURSIVE InsertDesc(_, _)
InsertDesc(sorted, m) ==
    IF sorted = <<>> THEN <<m>>
    ELSE IF Head(sorted).createdAt >= m.createdAt
           THEN <<Head(sorted)>> \o InsertDesc(Tail(sorted), m)
           ELSE <<m>> \o sorted

\* data.messages.sort((a, b) => new Date(b.createdAt) - new Date(a.createdAt)):
\* descending by createdAt, equal keys in their order of arrival (the sort is stable)
RECURSIVE SortDesc(_)
SortDesc(seq) ==
    IF seq = <<>> THEN <<>>
    ELSE InsertDesc(SortDesc(SubSeq(seq, 1, Len(seq) - 1)), seq[Len(seq)])

\* what the store holds when the session starts: nothing, or a message this
\* user sent to a counterpart in an earlier session
StoredHistories ==
    {<<>>,
     <<[_id |-> ObjectId(1), sender |-> Me, receiver |-> "A", text |-> "old",
        image |-> "", createdAt |-> 0, seen |-> TRUE, deleted |-> FALSE]>>}

ClientInit ==
    /\ messages = <<>>
    /\ users = <<>>
    /\ selectedUser = Null
    /\ unseenMessages = <<>>
    /\ messageCache = <<>>
    /\ now = 0
    /\ sendCalls = <<>>
    /\ fetchCalls = <<>>
    /\ deleteCalls = <<>>
    /\ markSeen = {}
    /\ store \in StoredHistories
    /\ pushes = <<>>
    /\ tombstonesShown = {}

(***************************************************************************)
(* Server: io.on("connection") and socket.on("disconnect")                 *)
(***************************************************************************)
\* server.js:64-68 and 70: the token verified; register when userId is truthy,
\* then broadcast the key set, and listen for this socket's disconnect
RegisterAndListen(s, token) ==
    LET userId == DecodedUserId(token)
        socks == [sockets EXCEPT ![s] = [status |-> "open", token |-> token,
                                         userId |-> userId, listening |-> TRUE]]
    IN  /\ sockets' = socks
        /\ IF Truthy(userId)
              THEN /\ userSocketMap' = Put(userSocketMap, userId, s)
                   /\ lastEmit' = EmitOnlineUsers(userSocketMap', socks)
                   /\ emitted' = emitted + 1
                   /\ lastReg' = [lastReg EXCEPT ![userId] = s]
              ELSE UNCHANGED <<userSocketMap, lastEmit, emitted, lastReg>>
        /\ UNCHANGED procUp

\* server.js:57-78 with a token that verifies
Connection(s, token) ==
    /\ procUp
    /\ sockets[s].status = "none"
    /\ ~VerifyThrows(token)
    /\ RegisterAndListen(s, token)
    /\ UNCHANGED clientVars

\* server.js:59 throws out of the listener, which has no try/catch; nothing in
\* server.js handles the exception, so node ends the process: the map and
\* every connection go with it
ConnectionThrowsExit(s, token) ==
    /\ procUp
    /\ sockets[s].status = "none"
    /\ VerifyThrows(token)
    /\ procUp' = FALSE
    /\ userSocketMap' = <<>>
    /\ sockets' = [x \in SocketIds |->
                     IF x = s THEN [FreshSocket EXCEPT !.status = "closed", !.token = token]
                     ELSE IF sockets[x].status = "open"
                            THEN [sockets[x] EXCEPT !.status = "closed"]
                            ELSE sockets[x]]
    /\ UNCHANGED <<lastEmit, emitted, lastReg>>
    /\ UNCHANGED clientVars

\* server.js:59 throws and a process-level handler installed by a module
\* server.js imports absorbs it: lines 60-77 never run, the socket socket.io
\* already connected stays connected, with no disconnect listener
ConnectionThrowsAbsorbed(s, token) ==
    /\ procUp
    /\ sockets[s].status = "none"
    /\ VerifyThrows(token)
    /\ sockets' = [sockets EXCEPT ![s] = [FreshSocket EXCEPT !.status = "open", !.token = token]]
    /\ UNCHANGED <<userSocketMap, procUp, lastEmit, emitted, lastReg>>
    /\ UNCHANGED clientVars

\* server.js:70-77: the listener of socket s, with the userId of its closure
OnDisconnect(s, socks) ==
    IF socks[s].listening /\ Truthy(socks[s].userId)
      THEN /\ userSocketMap' = DeleteKey(userSocketMap, socks[s].userId)
           /\ lastEmit' = EmitOnlineUsers(userSocketMap', socks)
           /\ emitted' = emitted + 1
      ELSE UNCHANGED <<userSocketMap, lastEmit, emitted>>

\* the transport of socket s closes; socket.io takes the socket out of the
\* namespace and then emits "disconnect" on it
Disconnect(s) ==
    /\ procUp
    /\ sockets[s].status = "open"
    /\ sockets' = [sockets EXCEPT ![s].status = "closed"]
    /\ OnDisconnect(s, sockets')
    /\ UNCHANGED <<procUp, lastReg>>
    /\ UNCHANGED clientVars

ServerNext ==
    \/ \E s \in SocketIds, token \in Tokens : Connection(s, token)
    \/ \E s \in SocketIds, token \in Tokens : ConnectionThrowsExit(s, token)
    \/ \E s \in SocketIds, token \in Tokens : ConnectionThrowsAbsorbed(s, token)
    \/ \E s \in SocketIds : Disconnect(s)

(***************************************************************************)
(* Client: getUsers, getMessages                                           *)
(***************************************************************************)
\* the ids of the entries the list shows as deleted
DeletedIds(list) == {list[k]._id : k \in {n \in DOMAIN list : list[n].deleted}}

\* what the user has seen: the ids the live view shows as deleted after the
\* step join the record
ViewObserved == tombstonesShown' = tombstonesShown \cup DeletedIds(messages')

\* the stored messages from c to this user that no mark request has reached
UnseenFrom(c) ==
    SelectSeq(store, LAMBDA m : m.sender = c /\ m.receiver = Me /\ m._id \notin markSeen)

\* data.unseenMessages of the partner-list response: per sender with unseen
\* messages, how many
ServerUnseenCounts ==
    [c \in {x \in Counterparts : UnseenFrom(x) # <<>>} |-> Len(UnseenFrom(c))]

\* data.users of the partner-list response: the directory's records
ServerUsers == [c \in Counterparts |-> NoTime]

\* ChatContext.jsx:33-43 on a successful response; a failed one only toasts
GetUsers ==
    /\ users' = ServerUsers
    /\ unseenMessages' = ServerUnseenCounts
    /\ UNCHANGED <<messages, selectedUser, messageCache, now, sendCalls, fetchCalls,
                   deleteCalls, markSeen, store, pushes>>
    /\ ViewObserved
    /\ UNCHANGED serverVars

\* the counter left as it is
KeepUnseen(prev, userId) == prev

\* (prev) => ({ ...prev, [userId]: 0 })
ResetUnseen(prev, userId) == Put(prev, userId, 0)

\* getMessages without its cache branch: every open clears the view and fetches
GetMessagesUncached(userId) ==
    /\ Ops < MaxOps
    /\ messages' = <<>>
    /\ fetchCalls' = Append(fetchCalls, [userId |-> userId, phase |-> "sent", data |-> <<>>])
    /\ UNCHANGED unseenMessages

\* ChatContext.jsx:50-59: from the cache, or cleared and fetched
GetMessages(userId) ==
    IF userId \in DOMAIN messageCache
      THEN /\ messages' = messageCache[userId]
           /\ unseenMessages' = ResetUnseen(unseenMessages, userId)
           /\ UNCHANGED fetchCalls
      ELSE /\ Ops < MaxOps
           /\ messages' = <<>>
           /\ fetchCalls' = Append(fetchCalls, [userId |-> userId, phase |-> "sent", data |-> <<>>])
           /\ UNCHANGED unseenMessages

\* the user picks a listed user: setSelectedUser(user), and the chat view
\* calls getMessages(user._id)
OpenConversation(userId) ==
    /\ userId \in DOMAIN users
    /\ selectedUser' = userId
    /\ GetMessages(userId)
    /\ UNCHANGED <<users, messageCache, now, sendCalls, deleteCalls, markSeen, store, pushes>>
    /\ ViewObserved
    /\ UNCHANGED serverVars

\* setSelectedUser(null), and ChatContext.jsx:242-244 clears the live view
CloseConversation ==
    /\ selectedUser # Null
    /\ selectedUser' = Null
    /\ messages' = <<>>
    /\ UNCHANGED <<users, unseenMessages, messageCache, now, sendCalls, fetchCalls,
                   deleteCalls, markSeen, store, pushes>>
    /\ ViewObserved
    /\ UNCHANGED serverVars

\* the messages of the store exchanged between this user and userId
Conversation(userId) ==
    SelectSeq(store, LAMBDA m : {m.sender, m.receiver} = {Me, userId})

\* the server answers the fetch with the conversation as stored at that moment
ServerAnswersFetch(j) ==
    /\ fetchCalls[j].phase = "sent"
    /\ fetchCalls' = [fetchCalls EXCEPT ![j].phase = "ok",
                                        ![j].data = Conversation(fetchCalls[j].userId)]
    /\ UNCHANGED <<messages, users, selectedUser, unseenMessages, messageCache, now,
                   sendCalls, deleteCalls, markSeen, store, pushes>>
    /\ ViewObserved
    /\ UNCHANGED serverVars

\* ChatContext.jsx:61-69: the awaited response arrives with data.success
FetchResolved(j) ==
    /\ fetchCalls[j].phase = "ok"
    /\ LET userId == fetchCalls[j].userId
           sorted == SortDesc(fetchCalls[j].data)
       IN  /\ messages' = sorted
           /\ messageCache' = Put(messageCache, userId, sorted)
           /\ unseenMessages' = ResetUnseen(unseenMessages, userId)
    /\ fetchCalls' = [fetchCalls EXCEPT ![j].phase = "done"]
    /\ UNCHANGED <<users, selectedUser, now, sendCalls, deleteCalls, markSeen, store, pushes>>
    /\ ViewObserved
    /\ UNCHANGED serverVars

\* ChatContext.jsx:70-72: the request is rejected or lost and the awaited get
\* throws; a toast, no state change
FetchFailed(j) ==
    /\ fetchCalls[j].phase = "sent"
    /\ fetchCalls' = [fetchCalls EXCEPT ![j].phase = "failed"]
    /\ UNCHANGED <<messages, users, selectedUser, unseenMessages, messageCache, now,
                   sendCalls, deleteCalls, markSeen, store, pushes>>
    /\ ViewObserved
    /\ UNCHANGED serverVars

(***************************************************************************)
(* Client: sendMessage                                                     *)
(***************************************************************************)
\* ChatContext.jsx:86-95
OptimisticMessage(tempId, to, messageData, t) ==
    [_id |-> tempId, sender |-> Me, receiver |-> to, text |-> messageData.text,
     image |-> messageData.image, createdAt |-> t, seen |-> FALSE, deleted |-> FALSE]

\* [...prev, m]: the new entry behind the old ones
AppendEntry(m, prev) == prev \o <<m>>

\* [m, ...prev]
Prepend(m, prev) == <<m>> \o prev

\* ChatContext.jsx:82-111: the optimistic insert, and the request goes out
SendMessage(messageData) ==
    /\ selectedUser # Null
    /\ Ops < MaxOps
    /\ LET tempId == TempId(now)
           optimisticMessage == OptimisticMessage(tempId, selectedUser, messageData, now)
       IN  /\ messages' = Prepend(optimisticMessage, messages)
           /\ messageCache' = Put(messageCache, selectedUser,
                                   Prepend(optimisticMessage, CacheOr(messageCache, selectedUser)))
           /\ sendCalls' = Append(sendCalls,
                  [tempId |-> tempId, to |-> selectedUser, messageData |-> messageData,
                   createdAt |-> now, phase |-> "sent", data |-> NoData])
    /\ UNCHANGED <<users, selectedUser, unseenMessages, now, fetchCalls, deleteCalls, markSeen,
                   store, pushes>>
    /\ ViewObserved
    /\ UNCHANGED serverVars

\* the message as the store persists it: the store assigns _id and createdAt
Persisted(n, from, to, messageData, t) ==
    [_id |-> ObjectId(n), sender |-> from, receiver |-> to, text |-> messageData.text,
     image |-> messageData.image, createdAt |-> t, seen |-> FALSE, deleted |-> FALSE]

\* the server persists the message of send call i and answers with it; the
\* push goes to the receiver, not to this client
ServerPersistsSend(i) ==
    /\ sendCalls[i].phase = "sent"
    /\ LET m == Persisted(Len(store) + 1, Me, sendCalls[i].to, sendCalls[i].messageData, now)
       IN  /\ store' = Append(store, m)
           /\ sendCalls' = [sendCalls EXCEPT ![i].phase = "ok", ![i].data = m]
    /\ UNCHANGED <<messages, users, selectedUser, unseenMessages, messageCache, now,
                   fetchCalls, deleteCalls, markSeen, pushes>>
    /\ ViewObserved
    /\ UNCHANGED serverVars

\* { ...data, createdAt: data.createdAt || optimisticMessage.createdAt }
Confirmed(data, optimisticCreatedAt) ==
    IF data.createdAt # NoTime THEN data ELSE [data EXCEPT !.createdAt = optimisticCreatedAt]

\* prev.map((m) => m._id === tempId ? {...data, createdAt} : m)
ReplaceOptimistic(prev, tempId, data) ==
    [k \in 1..Len(prev) |-> IF prev[k]._id = tempId THEN data ELSE prev[k]]

\* ChatContext.jsx:113-129: the awaited post resolves
SendConfirmed(i) ==
    /\ sendCalls[i].phase = "ok"
    /\ LET c == sendCalls[i]
           data == Confirmed(c.data, c.createdAt)
       IN  /\ messages' = ReplaceOptimistic(messages, c.tempId, data)
           /\ messageCache' = Put(messageCache, c.to,
                                   ReplaceOptimistic(messageCache[c.to], c.tempId, data))
    /\ sendCalls' = [sendCalls EXCEPT ![i].phase = "confirmed"]
    /\ UNCHANGED <<users, selectedUser, unseenMessages, now, fetchCalls, deleteCalls, markSeen,
                   store, pushes>>
    /\ ViewObserved
    /\ UNCHANGED serverVars

\* prev.filter((m) => m._id !== tempId)
RemoveOptimistic(prev, tempId) == SelectSeq(prev, LAMBDA m : m._id # tempId)

\* ChatContext.jsx:130-143: the request is rejected or lost before the store
\* persists anything, and the awaited post throws
SendRolledBack(i) ==
    /\ sendCalls[i].phase = "sent"
    /\ LET c == sendCalls[i]
       IN  /\ messages' = RemoveOptimistic(messages, c.tempId)
           /\ messageCache' = Put(messageCache, c.to,
                                   RemoveOptimistic(messageCache[c.to], c.tempId))
    /\ sendCalls' = [sendCalls EXCEPT ![i].phase = "rolledback"]
    /\ UNCHANGED <<users, selectedUser, unseenMessages, now, fetchCalls, deleteCalls, markSeen,
                   store, pushes>>
    /\ ViewObserved
    /\ UNCHANGED serverVars

(***************************************************************************)
(* Client: the socket's newMessage                                         *)
(***************************************************************************)
\* what a counterpart types
PeerMessageData == [text |-> "yo", image |-> ""]

\* counterpart c sends to this user: the server persists the message and
\* pushes newMessage over this user's connection
PeerSends(c) ==
    /\ Ops < MaxOps
    /\ LET m == Persisted(Len(store) + 1, c, Me, PeerMessageData, now)
       IN  /\ store' = Append(store, m)
           /\ pushes' = Append(pushes, [event |-> "newMessage", message |-> m])
    /\ UNCHANGED <<messages, users, selectedUser, unseenMessages, messageCache, now,
                   sendCalls, fetchCalls, deleteCalls, markSeen>>
    /\ ViewObserved
    /\ UNCHANGED serverVars

\* the test of lines 200-204 without its sender half
ForOpenConversationByReceiver(currentUser, newMessage) ==
    /\ currentUser # Null
    /\ newMessage.receiver = currentUser

\* ChatContext.jsx:200-204
ForOpenConversation(currentUser, newMessage) ==
    /\ currentUser # Null
    /\ (newMessage.sender = currentUser \/ newMessage.receiver = currentUser)

\* the counter set to one, whatever it was
SetUnseenToOne(prev, sender) == Put(prev, sender, 1)

\* ChatContext.jsx:217-220
IncrementUnseen(prev, sender) == Put(prev, sender, CountOr(prev, sender) + 1)

\* ChatContext.jsx:192-198
TouchUsers(prev, newMessage) ==
    [u \in DOMAIN prev |->
        IF u = newMessage.sender \/ u = newMessage.receiver
          THEN newMessage.createdAt ELSE prev[u]]

\* ChatContext.jsx:188-222
HandleNewMessage ==
    /\ pushes # <<>>
    /\ Head(pushes).event = "newMessage"
    /\ pushes' = Tail(pushes)
    /\ LET newMessage == Head(pushes).message
           currentUser == selectedUser
       IN  /\ users' = TouchUsers(users, newMessage)
           /\ IF ForOpenConversation(currentUser, newMessage)
                 THEN /\ messages' = Prepend(newMessage, messages)
                      /\ messageCache' = Put(messageCache, currentUser,
                                              Prepend(newMessage, CacheOr(messageCache, currentUser)))
                      /\ markSeen' = markSeen \cup {newMessage._id}
                      /\ unseenMessages' = ResetUnseen(unseenMessages, currentUser)
                 ELSE /\ unseenMessages' = IncrementUnseen(unseenMessages, newMessage.sender)
                      /\ UNCHANGED <<messages, messageCache, markSeen>>
    /\ UNCHANGED <<selectedUser, now, sendCalls, fetchCalls, deleteCalls, store>>
    /\ ViewObserved
    /\ UNCHANGED serverVars

(***************************************************************************)
(* Client: deleteMessage and the socket's messageDeleted                   *)
(***************************************************************************)
TombstoneText == "This message was deleted"

\* the deleted flag flipped instead of set
TombstoneToggle(m) == [m EXCEPT !.deleted = ~m.deleted, !.text = TombstoneText, !.image = ""]

\* { ...m, deleted: true, text: "This message was deleted", image: "" }
Tombstone(m) == [m EXCEPT !.deleted = TRUE, !.text = TombstoneText, !.image = ""]

\* prev.map((m) => m._id === messageId ? tombstone : m)
TombstoneIn(prev, messageId) ==
    [k \in 1..Len(prev) |-> IF prev[k]._id = messageId THEN Tombstone(prev[k]) ELSE prev[k]]

\* ChatContext.jsx:162-172
TombstoneInCache(prev, messageId) ==
    IF selectedUser # Null /\ selectedUser \in DOMAIN prev
      THEN Put(prev, selectedUser, TombstoneIn(prev[selectedUser], messageId))
      ELSE prev

\* the ids of the messages the live view shows
ShownIds == {messages[k]._id : k \in DOMAIN messages}

\* ChatContext.jsx:151-174: the optimistic tombstone, and the request goes out
DeleteMessage(messageId) ==
    /\ Ops < MaxOps
    /\ messageId \in ShownIds
    /\ messages' = TombstoneIn(messages, messageId)
    /\ messageCache' = TombstoneInCache(messageCache, messageId)
    /\ deleteCalls' = Append(deleteCalls, [messageId |-> messageId, phase |-> "sent"])
    /\ UNCHANGED <<users, selectedUser, unseenMessages, now, sendCalls, fetchCalls,
                   markSeen, store, pushes>>
    /\ ViewObserved
    /\ UNCHANGED serverVars

\* store.map((m) => m._id === messageId ? tombstone : m) on the server
TombstoneInStore(messageId) == TombstoneIn(store, messageId)

\* the server marks the record deleted and answers; the push goes to the
\* counterpart; the awaited delete resolves and nothing follows it (line 174)
DeleteSucceeded(k) ==
    /\ deleteCalls[k].phase = "sent"
    /\ \E n \in DOMAIN store : store[n]._id = deleteCalls[k].messageId
    /\ store' = TombstoneInStore(deleteCalls[k].messageId)
    /\ deleteCalls' = [deleteCalls EXCEPT ![k].phase = "ok"]
    /\ UNCHANGED <<messages, users, selectedUser, unseenMessages, messageCache, now,
                   sendCalls, fetchCalls, markSeen, pushes>>
    /\ ViewObserved
    /\ UNCHANGED serverVars

\* a catch that takes the entry out of the view, as the catch of sendMessage does
DeleteFailedRemoves(k) ==
    /\ deleteCalls[k].phase = "sent"
    /\ messages' = RemoveOptimistic(messages, deleteCalls[k].messageId)
    /\ deleteCalls' = [deleteCalls EXCEPT ![k].phase = "failed"]
    /\ UNCHANGED <<users, selectedUser, unseenMessages, messageCache, now,
                   sendCalls, fetchCalls, markSeen, store, pushes>>
    /\ ViewObserved
    /\ UNCHANGED serverVars

\* ChatContext.jsx:175-177: the awaited delete throws; a toast, no state change
DeleteFailed(k) ==
    /\ deleteCalls[k].phase = "sent"
    /\ deleteCalls' = [deleteCalls EXCEPT ![k].phase = "failed"]
    /\ UNCHANGED <<messages, users, selectedUser, unseenMessages, messageCache, now,
                   sendCalls, fetchCalls, markSeen, store, pushes>>
    /\ ViewObserved
    /\ UNCHANGED serverVars

\* a counterpart deletes a message it sent: the server marks the record
\* deleted and pushes messageDeleted, with the tombstoned message, to this user
PeerDeletes(n) ==
    /\ Ops < MaxOps
    /\ store[n].receiver = Me
    /\ ~store[n].deleted
    /\ store' = TombstoneInStore(store[n]._id)
    /\ pushes' = Append(pushes, [event |-> "messageDeleted", message |-> Tombstone(store[n])])
    /\ UNCHANGED <<messages, users, selectedUser, unseenMessages, messageCache, now,
                   sendCalls, fetchCalls, deleteCalls, markSeen>>
    /\ ViewObserved
    /\ UNCHANGED serverVars

\* prev.map((m) => (m._id === deletedMsg._id ? deletedMsg : m))
ReplaceDeleted(prev, deletedMsg) ==
    [k \in 1..Len(prev) |-> IF prev[k]._id = deletedMsg._id THEN deletedMsg ELSE prev[k]]

\* ChatContext.jsx:224-228
HandleDelete ==
    /\ pushes # <<>>
    /\ Head(pushes).event = "messageDeleted"
    /\ pushes' = Tail(pushes)
    /\ messages' = ReplaceDeleted(messages, Head(pushes).message)
    /\ UNCHANGED <<users, selectedUser, unseenMessages, messageCache, now, sendCalls,
                   fetchCalls, deleteCalls, markSeen, store>>
    /\ ViewObserved
    /\ UNCHANGED serverVars

\* a millisecond passes
Tick ==
    /\ now < MaxClock
    /\ now' = now + 1
    /\ UNCHANGED <<messages, users, selectedUser, unseenMessages, messageCache,
                   sendCalls, fetchCalls, deleteCalls, markSeen, store, pushes>>
    /\ ViewObserved
    /\ UNCHANGED serverVars

ClientNext ==
    \/ GetUsers
    \/ \E u \in Counterparts : OpenConversation(u)
    \/ CloseConversation
    \/ \E j \in DOMAIN fetchCalls : ServerAnswersFetch(j)
    \/ \E j \in DOMAIN fetchCalls : FetchResolved(j)
    \/ \E j \in DOMAIN fetchCalls : FetchFailed(j)
    \/ \E messageData \in MessageData : SendMessage(messageData)
    \/ \E i \in DOMAIN sendCalls : ServerPersistsSend(i)
    \/ \E i \in DOMAIN sendCalls : SendConfirmed(i)
    \/ \E i \in DOMAIN sendCalls : SendRolledBack(i)
    \/ \E c \in Counterparts : PeerSends(c)
    \/ HandleNewMessage
    \/ \E id \in ShownIds : DeleteMessage(id)
    \/ \E k \in DOMAIN deleteCalls : DeleteSucceeded(k)
    \/ \E k \in DOMAIN deleteCalls : DeleteFailed(k)
    \/ \E n \in DOMAIN store : PeerDeletes(n)
    \/ HandleDelete
    \/ Tick

(***************************************************************************)
(* Specifications                                                          *)
(***************************************************************************)
\* the server process has started and the client's provider is constructed
Init == ServerInit /\ ClientInit

\* the gateway alone: the client session stays as constructed
SpecServer == Init /\ [][ServerNext]_vars

\* one client session against the store: the gateway stays as started
SpecClient == Init /\ [][ClientNext]_vars

(***************************************************************************)
(* Server: properties                                                      *)
(***************************************************************************)
\* the connection that made the latest registration of id is still connected
LatestRegistrationLive(id) ==
    /\ lastReg[id] # NoSocket
    /\ sockets[lastReg[id]].status = "open"

\* C1: the registry holds an identity exactly when the connection that made the
\* identity's most recent registration has not disconnected; so after h1 and
\* then h2 register one identity, the disconnect of h1 leaves it registered
\* while h2 is connected.
C1_RegistryIsLatestLiveRegistration ==
    \A id \in Identities : (id \in DOMAIN userSocketMap) <=> LatestRegistrationLive(id)

\* the handler of socket s has just run on a token that jwt.verify rejects
RejectedHandshake(s) ==
    /\ sockets[s].status = "none"
    /\ sockets'[s].status # "none"
    /\ VerifyThrows(sockets'[s].token)

\* C7: a connection attempt with an invalid or missing token changes neither
\* the registry nor any other connection.
C7_InvalidTokenTouchesNothingElse ==
    [][\A s \in SocketIds :
          RejectedHandshake(s) =>
              /\ userSocketMap' = userSocketMap
              /\ \A x \in SocketIds \ {s} : sockets'[x] = sockets[x]]_vars

\* TokenValidator's AuthInvalid: the signature is bad, the token is expired or
\* missing, or the payload names no identity
AuthInvalid(token) == VerifyThrows(token) \/ ~Truthy(DecodedUserId(token))

\* C8: a connection whose token fails validation is closed by its handshake:
\* once the handler has run it is not open, and it was never registered.
C8_FailedTokenIsClosed ==
    \A s \in SocketIds :
        (sockets[s].status # "none" /\ AuthInvalid(sockets[s].token)) =>
            /\ sockets[s].status = "closed"
            /\ \A id \in Identities : lastReg[id] # s

\* a step of the running process that registers an identity or changes the map
RegistryStep ==
    /\ procUp'
    /\ (lastReg' # lastReg \/ userSocketMap' # userSocketMap)

\* C9: every registration and every removal emits one getOnlineUsers broadcast
\* to all live connections, carrying the full key set of the registry; so the
\* payload of the latest broadcast is the registry's key set.
C9_EveryChangeBroadcastsFullSet ==
    /\ [][RegistryStep =>
            /\ emitted' = emitted + 1
            /\ lastEmit'.payload = DOMAIN userSocketMap'
            /\ lastEmit'.to = OpenSockets(sockets')]_vars
    /\ []((procUp /\ emitted > 0) => lastEmit.payload = DOMAIN userSocketMap)

\* a removal has been broadcast to a connection that is still live, and the
\* registry still holds another identity
C9_Witness ==
    /\ procUp
    /\ emitted >= 3
    /\ \E s \in SocketIds : sockets[s].status = "closed" /\ sockets[s].listening
                              /\ Truthy(sockets[s].userId)
    /\ lastEmit.to # {}
    /\ lastEmit.payload # {}
    /\ lastEmit.payload = DOMAIN userSocketMap

(***************************************************************************)
(* Client: properties                                                      *)
(***************************************************************************)
\* how many entries of a list carry the id
CountId(list, id) == Cardinality({k \in DOMAIN list : list[k]._id = id})

\* C2: the live view never holds two entries with the same server-assigned id.
C2_NoDuplicateConfirmedId ==
    \A j, k \in DOMAIN messages :
        (j # k /\ messages[j]._id.kind = "oid") => messages[j]._id # messages[k]._id

\* the continuation of send call i runs on a successful response
ConfirmStep(i) ==
    /\ sendCalls[i].phase = "ok"
    /\ sendCalls'[i].phase = "confirmed"

\* C3: when a send succeeds, its provisional entry is replaced at its position
\* by the confirmed message, which is then exactly once in the cache entry of
\* the addressed counterpart and, while that conversation is open, exactly
\* once in the live view.
C3_ConfirmReplacesProvisionalOnce ==
    [][\A i \in DOMAIN sendCalls :
          ConfirmStep(i) =>
              LET c == sendCalls[i]
              IN  /\ CountId(messageCache'[c.to], c.data._id) = 1
                  /\ CountId(messageCache'[c.to], c.tempId) = 0
                  /\ selectedUser = c.to =>
                        /\ CountId(messages', c.data._id) = 1
                        /\ CountId(messages', c.tempId) = 0
                  /\ Len(messages') = Len(messages)
                  /\ \A k \in DOMAIN messages :
                        messages[k]._id = c.tempId => messages'[k] = c.data]_vars

\* the continuation of send call i runs on a failed request
RollbackStep(i) ==
    /\ sendCalls[i].phase = "sent"
    /\ sendCalls'[i].phase = "rolledback"

\* C4: when a send fails, no entry with its tempId remains in the live view or
\* in the cache entry of the addressed counterpart, every other entry stays
\* (at most the one provisional entry of this send goes), and no request is
\* issued again.
C4_RollbackRemovesOnlyItsEntry ==
    [][\A i \in DOMAIN sendCalls :
          RollbackStep(i) =>
              LET c == sendCalls[i]
              IN  /\ CountId(messages', c.tempId) = 0
                  /\ CountId(messageCache'[c.to], c.tempId) = 0
                  /\ Len(messages') >= Len(messages) - 1
                  /\ Len(messageCache'[c.to]) >= Len(messageCache[c.to]) - 1
                  /\ \A u \in DOMAIN messageCache \ {c.to} : messageCache'[u] = messageCache[u]
                  /\ Len(sendCalls') = Len(sendCalls)
                  /\ \A j \in DOMAIN sendCalls \ {i} : sendCalls'[j] = sendCalls[j]]_vars

\* sendMessage has just been called: its request is the newest one
SendStep == Len(sendCalls') = Len(sendCalls) + 1

\* C5: right after sendMessage is called with a conversation open, its request
\* unresolved, the provisional message (its tempId, seen and deleted false) is
\* at position 0 of the live view and of the open counterpart's cache entry.
C5_ProvisionalAtPositionZero ==
    [][SendStep =>
          LET c == sendCalls'[Len(sendCalls')]
              provisional == OptimisticMessage(c.tempId, selectedUser, c.messageData, c.createdAt)
          IN  /\ c.phase = "sent"
              /\ selectedUser' = selectedUser /\ selectedUser # Null
              /\ ~provisional.seen /\ ~provisional.deleted
              /\ messages' = <<provisional>> \o messages
              /\ selectedUser \in DOMAIN messageCache'
              /\ messageCache'[selectedUser] # <<>>
              /\ messageCache'[selectedUser][1] = provisional]_vars

\* a send is unresolved, and its provisional message heads a live view and a
\* cache entry that already held another message
C5_Witness ==
    /\ sendCalls # <<>>
    /\ sendCalls[Len(sendCalls)].phase = "sent"
    /\ selectedUser # Null
    /\ Len(messages) >= 2
    /\ messages[1]._id = sendCalls[Len(sendCalls)].tempId
    /\ messages[2]._id # messages[1]._id
    /\ selectedUser \in DOMAIN messageCache
    /\ messageCache[selectedUser] = messages

\* C6: any two sendMessage calls of a session have distinct tempIds.
C6_TempIdsDistinct ==
    \A i, j \in DOMAIN sendCalls : i # j => sendCalls[i].tempId # sendCalls[j].tempId

\* the newMessage handler has just run on the oldest undelivered push
NewMessageStep ==
    /\ pushes # <<>>
    /\ Head(pushes).event = "newMessage"
    /\ pushes' = Tail(pushes)

\* C10: a newMessage push from counterpart C, handled while C's conversation
\* is not the open one, raises C's unseen counter by exactly 1, changes no
\* other counter and leaves the live view as it was.
C10_PushForClosedConversationCountsOne ==
    [][(NewMessageStep /\ Head(pushes).message.sender # selectedUser) =>
          LET c == Head(pushes).message.sender
          IN  /\ c \in DOMAIN unseenMessages'
              /\ unseenMessages'[c] = CountOr(unseenMessages, c) + 1
              /\ DOMAIN unseenMessages' = DOMAIN unseenMessages \cup {c}
              /\ \A d \in DOMAIN unseenMessages \ {c} : unseenMessages'[d] = unseenMessages[d]
              /\ messages' = messages]_vars

\* a push from a counterpart whose conversation was not open has been handled
\* on top of an earlier count, while another conversation is shown
C10_Witness ==
    /\ selectedUser # Null
    /\ messages # <<>>
    /\ pushes = <<>>
    /\ \E c \in Counterparts \ {selectedUser} :
          /\ c \in DOMAIN users /\ users[c] # NoTime
          /\ c \in DOMAIN unseenMessages /\ unseenMessages[c] >= 1
          /\ c \notin DOMAIN messageCache

\* the step is getMessages(u) finding a cache entry for u
OpenFromCache(u) == OpenConversation(u) /\ u \in DOMAIN messageCache

\* the step is the continuation of getMessages applying the response of fetch j
FetchResolveStep(j) ==
    /\ fetchCalls[j].phase = "ok"
    /\ fetchCalls'[j].phase = "done"

\* C11: opening the conversation with C leaves the unseen counter of C at 0,
\* when getMessages(C) serves it from the cache and when the fetch it issued
\* comes back with the conversation.
C11_OpenResetsUnseenCounter ==
    [][/\ \A u \in Counterparts :
              OpenFromCache(u) =>
                  u \in DOMAIN unseenMessages' /\ unseenMessages'[u] = 0
       /\ \A j \in DOMAIN fetchCalls :
              FetchResolveStep(j) =>
                  LET u == fetchCalls[j].userId
                  IN  u \in DOMAIN unseenMessages' /\ unseenMessages'[u] = 0]_vars

\* a message of C was counted while C was not open, and C is open again from
\* the cache filled by an earlier fetch: the counter is back at 0
C11_Witness ==
    \E c \in Counterparts :
        /\ selectedUser = c
        /\ pushes = <<>>
        /\ UnseenFrom(c) # <<>>
        /\ c \in DOMAIN messageCache
        /\ messages = messageCache[c]
        /\ \A k \in DOMAIN messages : messages[k].sender # c
        /\ \E j \in DOMAIN fetchCalls : fetchCalls[j].userId = c /\ fetchCalls[j].phase = "done"
        /\ c \in DOMAIN unseenMessages
        /\ unseenMessages[c] = 0

\* C12: opening a conversation that has a cache entry sends no fetch and makes
\* the live view that cache entry.
C12_CachedOpenFetchesNothing ==
    [][\A u \in Counterparts :
           OpenFromCache(u) =>
               /\ fetchCalls' = fetchCalls
               /\ messages' = messageCache[u]
               /\ messageCache' = messageCache]_vars

\* C's conversation was fetched first, another conversation was opened and
\* written to, and C is open again showing its cache entry, with no fetch
\* beyond the two first opens
C12_Witness ==
    \E c \in Counterparts :
        /\ selectedUser = c
        /\ Len(fetchCalls) = 2
        /\ fetchCalls[1].userId = c
        /\ fetchCalls[1].phase = "done"
        /\ fetchCalls[2].userId # c
        /\ \E i \in DOMAIN sendCalls : sendCalls[i].to # c
        /\ c \in DOMAIN messageCache
        /\ messageCache[c] # <<>>
        /\ messages = messageCache[c]

\* C13: a newMessage push whose sender or receiver is the open counterpart is
\* put in front of the live view and of that counterpart's cache entry, one
\* mark request for the message goes out, and the open counterpart's unseen
\* counter is 0 afterwards.
C13_PushForOpenConversation ==
    [][(/\ NewMessageStep
        /\ selectedUser # Null
        /\ \/ Head(pushes).message.sender = selectedUser
           \/ Head(pushes).message.receiver = selectedUser) =>
           LET m == Head(pushes).message
               c == selectedUser
           IN  /\ messages' = <<m>> \o messages
               /\ c \in DOMAIN messageCache'
               /\ messageCache'[c] = <<m>> \o CacheOr(messageCache, c)
               /\ \A d \in DOMAIN messageCache \ {c} :
                      d \in DOMAIN messageCache' /\ messageCache'[d] = messageCache[d]
               /\ m._id \notin markSeen
               /\ markSeen' = markSeen \cup {m._id}
               /\ c \in DOMAIN unseenMessages'
               /\ unseenMessages'[c] = 0]_vars

\* the open counterpart's message heads the view and the cache entry, in front
\* of an older entry, its mark request is out and the counter is 0
C13_Witness ==
    /\ selectedUser # Null
    /\ pushes = <<>>
    /\ Len(messages) >= 2
    /\ messages[1].sender = selectedUser
    /\ messages[1]._id \in markSeen
    /\ messages[2]._id # messages[1]._id
    /\ selectedUser \in DOMAIN messageCache
    /\ messageCache[selectedUser] = messages
    /\ selectedUser \in DOMAIN unseenMessages
    /\ unseenMessages[selectedUser] = 0

\* the live view shows the message with this id as not deleted
ShownNotDeleted(id) ==
    \E k \in DOMAIN messages : messages[k]._id = id /\ ~messages[k].deleted

\* C14: once the live view has shown a message as deleted, after deleteMessage
\* or after a messageDeleted push, no later client event makes the live view
\* show that message as not deleted.
C14_TombstoneIsPermanent ==
    \A id \in tombstonesShown : ~ShownNotDeleted(id)

\* the step is a deleteMessage call
DeleteStep == Len(deleteCalls') = Len(deleteCalls) + 1

\* every entry of the list with this id carries the tombstone values
AlreadyTombstoned(list, id) ==
    \A k \in DOMAIN list :
        list[k]._id = id =>
            list[k].deleted /\ list[k].text = TombstoneText /\ list[k].image = ""

\* C15: deleteMessage on a message that is already tombstoned, in the live
\* view and in the open conversation's cache entry, changes neither the live
\* view nor the cache.
C15_TombstoneIsIdempotent ==
    [][DeleteStep =>
          LET id == deleteCalls'[Len(deleteCalls')].messageId
          IN  (/\ AlreadyTombstoned(messages, id)
               /\ AlreadyTombstoned(CacheOr(messageCache, selectedUser), id)) =>
                  /\ messages' = messages
                  /\ messageCache' = messageCache]_vars

\* deleteMessage was called twice for one message, which the view and the
\* cache show with the tombstone values
C15_Witness ==
    /\ selectedUser # Null
    /\ selectedUser \in DOMAIN messageCache
    /\ messages = messageCache[selectedUser]
    /\ \E k1, k2 \in DOMAIN deleteCalls :
          /\ k1 < k2
          /\ deleteCalls[k1].messageId = deleteCalls[k2].messageId
          /\ \E k \in DOMAIN messages :
                /\ messages[k]._id = deleteCalls[k2].messageId
                /\ messages[k].deleted
                /\ messages[k].text = TombstoneText
                /\ messages[k].image = ""

\* the step is the catch of deleteMessage handling the failure of request k
DeleteFailStep(k) ==
    /\ deleteCalls[k].phase = "sent"
    /\ deleteCalls'[k].phase = "failed"

\* C16: when the delete request fails, handling the failure changes neither
\* the live view nor the cache: the optimistic tombstone stays as applied.
C16_FailedDeleteKeepsTombstone ==
    [][\A k \in DOMAIN deleteCalls :
           DeleteFailStep(k) =>
               /\ messages' = messages
               /\ messageCache' = messageCache]_vars

\* a delete request has failed and the view and the cache still show the
\* message with the tombstone values
C16_Witness ==
    \E k \in DOMAIN deleteCalls :
        /\ deleteCalls[k].phase = "failed"
        /\ selectedUser # Null
        /\ selectedUser \in DOMAIN messageCache
        /\ \E n \in DOMAIN messages :
              /\ messages[n]._id = deleteCalls[k].messageId
              /\ messages[n].deleted
              /\ messages[n].text = TombstoneText
        /\ \E n \in DOMAIN messageCache[selectedUser] :
              /\ messageCache[selectedUser][n]._id = deleteCalls[k].messageId
              /\ messageCache[selectedUser][n].deleted
        /\ \E n \in DOMAIN store :
              store[n]._id = deleteCalls[k].messageId /\ ~store[n].deleted

\* the step is getMessages(u) finding no cache entry for u: lines 58-59
OpenUncached(u) == OpenConversation(u) /\ u \notin DOMAIN messageCache

\* the step is the catch of getMessages handling the failure of fetch j
FetchFailStep(j) ==
    /\ fetchCalls[j].phase = "sent"
    /\ fetchCalls'[j].phase = "failed"

\* the step leaves the live view, the cache and the unseen counters alone
LocalStateKept ==
    /\ messages' = messages
    /\ messageCache' = messageCache
    /\ unseenMessages' = unseenMessages

\* C17: when the fetch of an uncached open fails, the live view, the cache and
\* the unseen counters are what they were before the open started: no step of
\* the open writes them, neither the call up to its request (whose fetch can
\* still fail) nor the handling of the failure.
C17_FailedFetchLeavesState ==
    [][/\ \A u \in Counterparts : OpenUncached(u) => LocalStateKept
       /\ \A j \in DOMAIN fetchCalls : FetchFailStep(j) => LocalStateKept]_vars

\* the list is ordered newest-first by createdAt
NewestFirst(list) ==
    \A k \in 1..(Len(list) - 1) : list[k].createdAt >= list[k + 1].createdAt

\* C18: in every reachable state the live view and every cache entry are
\* ordered newest-first by createdAt, also after a provisional message is
\* replaced in place by the confirmed one with the server's createdAt.
C18_NewestFirst ==
    /\ NewestFirst(messages)
    /\ \A u \in DOMAIN messageCache : NewestFirst(messageCache[u])

\* C19: while a conversation with a cache entry is open, the live view equals
\* that cache entry after every client reaction.
C19_ViewEqualsCacheEntry ==
    (selectedUser # Null /\ selectedUser \in DOMAIN messageCache) =>
        messages = messageCache[selectedUser]

\* the message was exchanged between this user and u
ExchangedWith(m, u) == {m.sender, m.receiver} = {Me, u}

\* C20: the live view holds only messages exchanged with the open counterpart
\* and is empty when no conversation is open; a fetch for A that resolves
\* after B was opened does not put A's messages in the live view.
C20_ViewHoldsOpenConversationOnly ==
    /\ selectedUser = Null => messages = <<>>
    /\ selectedUser # Null =>
           \A k \in DOMAIN messages : ExchangedWith(messages[k], selectedUser)

====
